---------------------------- MODULE Spec2Model ----------------------------
(***************************************************************************)
(* A model of the Whitespace interpreter of whitespace_interpreter.py.     *)
(*                                                                         *)
(* The program text is a sequence over the three significant characters,   *)
(* written here as the interpreter's own clean() renders them: "s" for a   *)
(* space, "t" for a tab and "n" for a line-feed.  Offsets are zero-based   *)
(* as in the source; one step of the model is one iteration of the         *)
(* while-loop of Interpreter.run, or one of the branches that follow it.   *)
(***************************************************************************)
EXTENDS Integers, Sequences, FiniteSets, TLC

VARIABLES code, inp, input, pos, loading, stack, heap, output, labels,
          return_positions, instruction, command, status, error

vars == <<code, inp, input, pos, loading, stack, heap, output, labels,
          return_positions, instruction, command, status, error>>

S == "s"
T == "t"
N == "n"

(***************************************************************************)
(* Bounds of the model.                                                    *)
(***************************************************************************)
MaxCodeLen == 6     \* every program text of at most this length is an input
MaxInstr   == 3     \* every sequence of at most this many Pieces is an input
MaxStack   == 3     \* the stack is not grown beyond this size
MaxVal     == 4     \* arithmetic results stay within -MaxVal .. MaxVal
MaxReturn  == 2     \* the return stack is not grown beyond this depth
MaxOutput  == 2     \* the output is not grown beyond this length

\* float('inf'): greater than every offset of every program.
Inf == 1000000

(***************************************************************************)
(* Python's sequence primitives.                                           *)
(***************************************************************************)
SetMin(X) == CHOOSE x \in X : \A y \in X : x <= y

Min2(a, b) == IF a <= b THEN a ELSE b

Max2(a, b) == IF a >= b THEN a ELSE b

\* s[a:b], with a negative bound counted from the end and both clamped.
PySlice(s, a, b) ==
    LET n  == Len(s)
        lo == IF a < 0 THEN Max2(a + n, 0) ELSE Min2(a, n)
        hi == IF b < 0 THEN Max2(b + n, 0) ELSE Min2(b, n)
    IN  IF lo >= hi THEN <<>> ELSE SubSeq(s, lo + 1, hi)

\* s.find('\n', start): the least offset >= start holding a line-feed, or -1.
find(s, start) ==
    LET hits == {i \in start .. (Len(s) - 1) : s[i + 1] = N}
    IN  IF hits = {} THEN -1 ELSE SetMin(hits)

Abs(x) == IF x < 0 THEN -x ELSE x

\* Faulty variant of PyFloorDiv: the quotient rounds toward zero.
PyFloorDiv_truncates(b, a) ==
    LET q == Abs(b) \div Abs(a)
    IN  IF (b >= 0) = (a > 0) THEN q ELSE -q

\* b // a and b % a of Python, for a # 0: the quotient rounds toward
\* negative infinity and the remainder takes the sign of the divisor.
PyFloorDiv(b, a) ==
    LET q == Abs(b) \div Abs(a)
        exact == q * Abs(a) = Abs(b)
    IN  IF (b >= 0) = (a > 0) THEN q
        ELSE IF exact THEN -q ELSE -q - 1

PyMod(b, a) == b - a * PyFloorDiv(b, a)

(***************************************************************************)
(* Errors: the exception raised, its message and the value it reports.     *)
(***************************************************************************)
Err(type, msg, arg) == [type |-> type, msg |-> msg, arg |-> arg]

NoError == Err("", "", <<>>)

EmptyProgramError == Err("SyntaxError", "Unclean termination of program", <<>>)

UnknownInstructionError(instr) == Err("SyntaxError", "Unknown instruction", <<instr>>)

NoIMPError(token) == Err("KeyError", "No IMP found for token", token)

OnlyTerminalError ==
    Err("SyntaxError", "Number must include more than just the terminal.", <<>>)

StringIndexError == Err("IndexError", "string index out of range", <<>>)

PopError == Err("IndexError", "pop from empty list", <<>>)

DuplicateExceedsError ==
    Err("ValueError", "Cannot duplicate - Value exceeds stack size limit", <<>>)

DuplicateNegativeError ==
    Err("IndexError", "Cannot duplicate negative stack index", <<>>)

ZeroDivisionError == Err("ZeroDivisionError", "Cannot divide by zero", <<>>)

HeapKeyError(a) == Err("KeyError", "heap", <<ToString(a)>>)

ChrError == Err("ValueError", "chr() arg not in range(0x110000)", <<>>)

InputPopError == Err("IndexError", "pop from empty list (input)", <<>>)

InputIndexError == Err("ValueError", "'\\n' is not in list", <<>>)

IntParseError == Err("ValueError", "invalid literal for int() with base 10", <<>>)

LabelExistsError == Err("ValueError", "Label already exists", <<>>)

LabelKeyError(label) == Err("KeyError", "labels", label)

ReturnOutsideError == Err("SyntaxError", "Return outside of subroutine", <<>>)

SubroutineError ==
    Err("SyntaxError", "Subroutine does not properly exit or return", <<>>)

UncleanTerminationError == Err("RuntimeError", "Unclean termination", <<>>)

(***************************************************************************)
(* The code tables.                                                        *)
(***************************************************************************)
IMP ==
    (<<S>> :> "Stack") @@ (<<T, S>> :> "Arithmetic") @@ (<<T, T>> :> "Heap") @@
    (<<T, N>> :> "IO") @@ (<<N>> :> "FlowControl")

STACK_IMP ==
    (<<S>> :> "push_num") @@ (<<T, S>> :> "duplicate_nth") @@
    (<<T, N>> :> "discard_n") @@ (<<N, S>> :> "duplicate_top") @@
    (<<N, T>> :> "swap") @@ (<<N, N>> :> "discard_top")

IO_IMP ==
    (<<S, S>> :> "output_char") @@ (<<S, T>> :> "output_num") @@
    (<<T, S>> :> "input_char") @@ (<<T, T>> :> "input_num")

FLOW_IMP ==
    (<<S, S>> :> "mark_label") @@ (<<S, T>> :> "call_subroutine") @@
    (<<S, N>> :> "jump") @@ (<<T, S>> :> "jump_zero") @@
    (<<T, T>> :> "jump_lt_zero") @@ (<<T, N>> :> "exit_subroutine") @@
    (<<N, N>> :> "exit")

ARITHMETIC_IMP ==
    (<<S, S>> :> "add") @@ (<<S, T>> :> "sub") @@ (<<S, N>> :> "mul") @@
    (<<T, S>> :> "floordiv") @@ (<<T, T>> :> "mod")

HEAP_IMP == (<<S>> :> "store") @@ (<<T>> :> "push")

FamilyTable(family) ==
    CASE family = "Stack"       -> STACK_IMP
      [] family = "Arithmetic"  -> ARITHMETIC_IMP
      [] family = "Heap"        -> HEAP_IMP
      [] family = "IO"          -> IO_IMP
      [] family = "FlowControl" -> FLOW_IMP

(***************************************************************************)
(* The literal decoder.                                                    *)
(***************************************************************************)
Range(s) == {s[i] : i \in 1 .. Len(s)}

\* int(binary, 2) over the digits keys.index gives: space 0, tab 1.
RECURSIVE int2(_)
int2(bits) ==
    IF bits = <<>> THEN 0
    ELSE 2 * int2(SubSeq(bits, 1, Len(bits) - 1))
         + (IF bits[Len(bits)] = T THEN 1 ELSE 0)

KeysIndexError == Err("ValueError", "'\\n' is not in list", <<N>>)

from_whitespace(c) ==
    IF Len(c) = 1 THEN [err |-> NoError, num |-> 0]
    ELSE IF Len(c) = 0 THEN [err |-> StringIndexError, num |-> 0]
    ELSE IF N \in Range(c) THEN [err |-> KeysIndexError, num |-> 0]
    ELSE LET sign == IF c[1] = S THEN 1 ELSE -1
         IN  [err |-> NoError, num |-> int2(Tail(c)) * sign]

\* Faulty variant of num_parameter: a lone terminator is read as 0.
num_parameter_lone_terminator_is_zero(p) ==
    LET index == find(code, p)
    IN  IF index = p
        THEN [err |-> NoError, index |-> index, item |-> 0]
        ELSE LET r == from_whitespace(PySlice(code, p, index))
             IN  [err |-> r.err, index |-> index, item |-> r.num]

\* num_parameter at offset p: the offset of the terminator and the number.
num_parameter(p) ==
    LET index == find(code, p)
    IN  IF index = p
        THEN [err |-> OnlyTerminalError, index |-> index, item |-> 0]
        ELSE LET r == from_whitespace(PySlice(code, p, index))
             IN  [err |-> r.err, index |-> index, item |-> r.num]

\* label_parameter at offset p: the offset after the terminator and the
\* name, which keeps its terminator.
label_parameter(p) ==
    LET index == find(code, p) + 1
    IN  [index |-> index, name |-> PySlice(code, p, index)]

(***************************************************************************)
(* The token dispatcher: the one-character slice, else the two-character   *)
(* slice, looked up in the table.                                          *)
(***************************************************************************)
Token(imp, p) ==
    LET token == PySlice(code, p, p + 1)
    IN  IF token \in DOMAIN imp THEN token ELSE PySlice(code, p, p + 2)

\* The condition of the while-loop of run.
Looping == status = "running" /\ pos < Len(code)

\* The family the top-level dispatch of run finds at pos.
Fetched(family) ==
    /\ Looping
    /\ Token(IMP, pos) \in DOMAIN IMP
    /\ IMP[Token(IMP, pos)] = family

\* pos after the family's code.
Pos1 == pos + Len(Token(IMP, pos))

CommandToken(family) == Token(FamilyTable(family), Pos1)

\* The command get_command finds after the family's code.
Decoded(family, cmd) ==
    /\ Fetched(family)
    /\ CommandToken(family) \in DOMAIN FamilyTable(family)
    /\ FamilyTable(family)[CommandToken(family)] = cmd

\* pos after the command's code.
Pos2(family) == Pos1 + Len(CommandToken(family))

(***************************************************************************)
(* The handlers of the Stack family, as functions of the stack.            *)
(***************************************************************************)
Top(st) == st[Len(st)]

Pop(st) == SubSeq(st, 1, Len(st) - 1)

push_num(st, item) == [err |-> NoError, stack |-> Append(st, item)]

\* Faulty variant of duplicate_nth: the depth is counted from the bottom.
duplicate_nth_from_bottom(st, n) ==
    IF n > Len(st) - 1 THEN [err |-> DuplicateExceedsError, stack |-> st]
    ELSE IF n < 0 THEN [err |-> DuplicateNegativeError, stack |-> st]
    ELSE [err |-> NoError, stack |-> Append(st, st[n + 1])]

duplicate_nth(st, n) ==
    IF n > Len(st) - 1 THEN [err |-> DuplicateExceedsError, stack |-> st]
    ELSE IF n < 0 THEN [err |-> DuplicateNegativeError, stack |-> st]
    ELSE [err |-> NoError, stack |-> Append(st, st[Len(st) - n])]

\* Faulty variant of discard_n: a number out of range discards nothing.
discard_n_unclamped(st, n) ==
    LET m == IF n >= Len(st) \/ n < 0 THEN 0 ELSE n
    IN  IF st = <<>> THEN [err |-> PopError, stack |-> st]
        ELSE [err |-> NoError,
              stack |-> Append(SubSeq(st, 1, Len(st) - 1 - m), Top(st))]

discard_n(st, n) ==
    LET m == IF n >= Len(st) \/ n < 0 THEN Len(st) - 1 ELSE n
    IN  IF st = <<>> THEN [err |-> PopError, stack |-> st]
        ELSE [err |-> NoError,
              stack |-> Append(SubSeq(st, 1, Len(st) - 1 - m), Top(st))]

discard_top(st) ==
    IF st = <<>> THEN [err |-> PopError, stack |-> st]
    ELSE [err |-> NoError, stack |-> Pop(st)]

\* Faulty variant of swap: the two values go back in their former order.
swap_restores_order(st) ==
    IF Len(st) < 2 THEN [err |-> PopError, stack |-> <<>>]
    ELSE [err |-> NoError, stack |-> st]

\* a, b = pop(), pop(): the first pop has happened when the second fails.
swap(st) ==
    IF Len(st) < 2 THEN [err |-> PopError, stack |-> <<>>]
    ELSE [err |-> NoError,
          stack |-> Append(Append(Pop(Pop(st)), Top(st)), Top(Pop(st)))]

(***************************************************************************)
(* The handlers of the Arithmetic family.                                  *)
(***************************************************************************)
Binary(st, c) ==
    IF Len(st) < 2 THEN [err |-> PopError, stack |-> <<>>]
    ELSE [err |-> NoError, stack |-> Append(Pop(Pop(st)), c)]

add(st) == Binary(st, IF Len(st) < 2 THEN 0 ELSE Top(Pop(st)) + Top(st))

sub(st) == Binary(st, IF Len(st) < 2 THEN 0 ELSE Top(Pop(st)) - Top(st))

mul(st) == Binary(st, IF Len(st) < 2 THEN 0 ELSE Top(Pop(st)) * Top(st))

\* Faulty variant of floordiv: division by zero pushes 0 and goes on.
floordiv_by_zero_pushes(st) ==
    IF Len(st) < 2 THEN [err |-> PopError, stack |-> <<>>]
    ELSE IF Top(st) = 0 THEN Binary(st, 0)
    ELSE Binary(st, PyFloorDiv(Top(Pop(st)), Top(st)))

floordiv(st) ==
    IF Len(st) < 2 THEN [err |-> PopError, stack |-> <<>>]
    ELSE IF Top(st) = 0 THEN [err |-> ZeroDivisionError, stack |-> Pop(Pop(st))]
    ELSE Binary(st, PyFloorDiv(Top(Pop(st)), Top(st)))

mod(st) ==
    IF Len(st) < 2 THEN [err |-> PopError, stack |-> <<>>]
    ELSE IF Top(st) = 0 THEN [err |-> ZeroDivisionError, stack |-> Pop(Pop(st))]
    ELSE Binary(st, PyMod(Top(Pop(st)), Top(st)))

(***************************************************************************)
(* The handlers of the Heap family.  The heap is a function from the       *)
(* addresses written so far to their contents.                             *)
(***************************************************************************)
EmptyMap == [x \in {} |-> 0]

Put(f, k, v) == [x \in DOMAIN f \cup {k} |-> IF x = k THEN v ELSE f[x]]

\* Faulty variant of store: the address is popped first and the value second.
store_address_first(st, hp) ==
    IF Len(st) < 2 THEN [err |-> PopError, stack |-> <<>>, heap |-> hp]
    ELSE [err |-> NoError, stack |-> Pop(Pop(st)),
          heap |-> Put(hp, Top(st), Top(Pop(st)))]

store(st, hp) ==
    IF Len(st) < 2 THEN [err |-> PopError, stack |-> <<>>, heap |-> hp]
    ELSE [err |-> NoError, stack |-> Pop(Pop(st)),
          heap |-> Put(hp, Top(Pop(st)), Top(st))]

push(st, hp) ==
    IF st = <<>> THEN [err |-> PopError, stack |-> st, heap |-> hp]
    ELSE IF Top(st) \notin DOMAIN hp
    THEN [err |-> HeapKeyError(Top(st)), stack |-> Pop(st), heap |-> hp]
    ELSE [err |-> NoError, stack |-> Append(Pop(st), hp[Top(st)]), heap |-> hp]

(***************************************************************************)
(* The handlers of the IO family.  Characters of the input and of the      *)
(* output are code points.                                                 *)
(***************************************************************************)
\* chr() accepts the code points below this.
UnicodeLimit == 1114112

Minus == 45
Plus == 43
Zero == 48
LineFeed == 10

RECURSIVE Digits(_)
Digits(n) ==
    IF n < 10 THEN <<Zero + n>> ELSE Digits(n \div 10) \o <<Zero + (n % 10)>>

\* str(num)
Str(num) == IF num < 0 THEN <<Minus>> \o Digits(-num) ELSE Digits(num)

IsDigit(c) == c >= Zero /\ c <= Zero + 9

RECURSIVE Decimal(_)
Decimal(cs) ==
    IF cs = <<>> THEN 0
    ELSE 10 * Decimal(SubSeq(cs, 1, Len(cs) - 1)) + (cs[Len(cs)] - Zero)

\* int(num) for a text of digits with an optional sign; any other text of
\* the model's input alphabet is not a number.
ParseInt(cs) ==
    LET signed == cs # <<>> /\ cs[1] \in {Minus, Plus}
        digits == IF signed THEN Tail(cs) ELSE cs
    IN  IF digits = <<>> \/ \E i \in 1 .. Len(digits) : ~IsDigit(digits[i])
        THEN [err |-> IntParseError, num |-> 0]
        ELSE [err |-> NoError,
              num |-> IF signed /\ cs[1] = Minus THEN -Decimal(digits)
                      ELSE Decimal(digits)]

output_char(st, out) ==
    IF st = <<>> THEN [err |-> PopError, stack |-> st, output |-> out]
    ELSE IF Top(st) < 0 \/ Top(st) >= UnicodeLimit
    THEN [err |-> ChrError, stack |-> Pop(st), output |-> out]
    ELSE [err |-> NoError, stack |-> Pop(st), output |-> Append(out, Top(st))]

output_num(st, out) ==
    IF st = <<>> THEN [err |-> PopError, stack |-> st, output |-> out]
    ELSE [err |-> NoError, stack |-> Pop(st), output |-> out \o Str(Top(st))]

\* a = input.pop(0) comes before b = stack.pop().
input_char(st, hp, in) ==
    IF in = <<>>
    THEN [err |-> InputPopError, stack |-> st, heap |-> hp, input |-> in]
    ELSE IF st = <<>>
    THEN [err |-> PopError, stack |-> st, heap |-> hp, input |-> Tail(in)]
    ELSE [err |-> NoError, stack |-> Pop(st),
          heap |-> Put(hp, Top(st), Head(in)), input |-> Tail(in)]

\* b = stack.pop() comes first; the input is cut before int() parses.
input_num(st, hp, in) ==
    LET hits  == {i \in 1 .. Len(in) : in[i] = LineFeed}
        index == SetMin(hits)
        num   == ParseInt(SubSeq(in, 1, index - 1))
        rest  == SubSeq(in, index + 1, Len(in))
    IN  IF st = <<>>
        THEN [err |-> PopError, stack |-> st, heap |-> hp, input |-> in]
        ELSE IF hits = {}
        THEN [err |-> InputIndexError, stack |-> Pop(st), heap |-> hp,
              input |-> in]
        ELSE IF num.err # NoError
        THEN [err |-> num.err, stack |-> Pop(st), heap |-> hp, input |-> rest]
        ELSE [err |-> NoError, stack |-> Pop(st),
              heap |-> Put(hp, Top(st), num.num), input |-> rest]

(***************************************************************************)
(* The handlers of the FlowControl family.  p is self.pos when the handler *)
(* is called.                                                              *)
(***************************************************************************)
\* Faulty variant of exit: the program counter is left where it is.
exit_leaves_pos(p) == p

exit(p) == Inf

\* Faulty variant of mark_label: a second definition replaces the first.
mark_label_overwrites(lb, p, label) ==
    [err |-> NoError, labels |-> Put(lb, label, p + Len(label))]

\* Faulty variant of mark_label: the offset of the literal is recorded.
mark_label_before_literal(lb, p, label) ==
    IF label \in DOMAIN lb THEN [err |-> LabelExistsError, labels |-> lb]
    ELSE [err |-> NoError, labels |-> Put(lb, label, p)]

mark_label(lb, p, label) ==
    IF label \in DOMAIN lb THEN [err |-> LabelExistsError, labels |-> lb]
    ELSE [err |-> NoError, labels |-> Put(lb, label, p + Len(label))]

\* Faulty variant of jump: an unknown label is passed over.
jump_ignores_unknown(lb, p, label) ==
    IF label \in DOMAIN lb THEN [err |-> NoError, pos |-> lb[label]]
    ELSE [err |-> NoError, pos |-> p]

jump(lb, p, label) ==
    IF label \in DOMAIN lb THEN [err |-> NoError, pos |-> lb[label]]
    ELSE [err |-> LabelKeyError(label), pos |-> p]

\* Faulty variant of exit_subroutine: the oldest return position is taken.
exit_subroutine_oldest_first(rp, p) ==
    IF rp # <<>>
    THEN [err |-> NoError, pos |-> Head(rp), return_positions |-> Tail(rp)]
    ELSE [err |-> ReturnOutsideError, pos |-> p, return_positions |-> rp]

exit_subroutine(rp, p) ==
    IF rp # <<>>
    THEN [err |-> NoError, pos |-> Top(rp), return_positions |-> Pop(rp)]
    ELSE [err |-> ReturnOutsideError, pos |-> p, return_positions |-> rp]

\* The return position is appended before the label is looked up.
call_subroutine(lb, rp, p, label) ==
    IF label \in DOMAIN lb
    THEN [err |-> NoError, pos |-> lb[label], return_positions |-> Append(rp, p)]
    ELSE [err |-> LabelKeyError(label), pos |-> p,
          return_positions |-> Append(rp, p)]

\* Faulty variant of run_end: the return stack is checked whether or not
\* exit has run.
run_end_checks_after_exit(rp, p, code_length) ==
    IF rp # <<>> THEN SubroutineError
    ELSE IF p = code_length THEN UncleanTerminationError
    ELSE NoError

\* Faulty variant of run_end: the end-of-program test comes first.
run_end_unclean_first(rp, p, code_length) ==
    IF p = code_length THEN UncleanTerminationError
    ELSE IF rp # <<>> /\ p # Inf THEN SubroutineError
    ELSE NoError

\* The branches after the while-loop of the second run: the error raised,
\* or NoError when run returns.
run_end(rp, p, code_length) ==
    IF rp # <<>> /\ p # Inf THEN SubroutineError
    ELSE IF p = code_length THEN UncleanTerminationError
    ELSE NoError

(***************************************************************************)
(* One iteration of the loop: its effect on the machine.  A handler that   *)
(* raises leaves status "Failure" and the exception in error; whatever the *)
(* iteration changed before the raise stays changed.                       *)
(***************************************************************************)
Effect(p, st, hp, in, out, lb, rp, e) ==
    /\ pos' = p
    /\ stack' = st
    /\ heap' = hp
    /\ input' = in
    /\ output' = out
    /\ labels' = lb
    /\ return_positions' = rp
    /\ error' = e
    /\ status' = IF e = NoError THEN "running" ELSE "Failure"
    /\ UNCHANGED <<code, inp, loading>>

\* The bounds of the model: a step that would grow the stack beyond
\* MaxStack, or leave an arithmetic result outside -MaxVal .. MaxVal, is
\* not taken.
Fits(st) == Len(st) <= MaxStack

InRange(st) == \A i \in 1 .. Len(st) : Abs(st[i]) <= MaxVal

\* run: an empty program is refused before the loop.
EmptyProgram ==
    /\ status = "running"
    /\ Len(code) = 0
    /\ status' = "Failure"
    /\ error' = EmptyProgramError
    /\ UNCHANGED <<code, inp, input, pos, loading, stack, heap, output, labels,
                   return_positions, instruction, command>>

\* run: no key of IMP is the slice at pos.
UnknownInstruction ==
    /\ Looping
    /\ Token(IMP, pos) \notin DOMAIN IMP
    /\ status' = "Failure"
    /\ error' = UnknownInstructionError(instruction)
    /\ UNCHANGED <<code, inp, input, pos, loading, stack, heap, output, labels,
                   return_positions, instruction, command>>

\* get_command: no key of the family's table is the slice after the
\* family's code.
UnknownCommand ==
    \E family \in {"Stack", "Arithmetic", "Heap", "IO", "FlowControl"} :
        /\ Fetched(family)
        /\ CommandToken(family) \notin DOMAIN FamilyTable(family)
        /\ instruction' = family
        /\ command' = command
        /\ Effect(Pos1, stack, heap, input, output, labels, return_positions,
                  NoIMPError(CommandToken(family)))

(***************************************************************************)
(* Stack.parse                                                             *)
(***************************************************************************)
\* The branches of Stack.parse that read a number; r is what the handler
\* makes of the stack and the number.
StackWithNumber(cmd, r) ==
    /\ instruction' = "Stack"
    /\ command' = cmd
    /\ LET p   == Pos2("Stack")
           lit == num_parameter(p)
       IN  IF lit.err # NoError
           THEN Effect(p, stack, heap, input, output, labels,
                       return_positions, lit.err)
           ELSE IF loading
           THEN Effect(lit.index + 1, stack, heap, input, output, labels,
                       return_positions, NoError)
           ELSE /\ Fits(r.stack)
                /\ Effect(IF r.err = NoError THEN lit.index + 1 ELSE p,
                          r.stack, heap, input, output, labels,
                          return_positions, r.err)

\* The branches of Stack.parse without an operand; r is what the handler
\* makes of the stack.
StackPlain(cmd, r) ==
    /\ instruction' = "Stack"
    /\ command' = cmd
    /\ LET p == Pos2("Stack")
       IN  IF loading
           THEN Effect(p, stack, heap, input, output, labels,
                       return_positions, NoError)
           ELSE /\ Fits(r.stack)
                /\ Effect(p, r.stack, heap, input, output, labels,
                          return_positions, r.err)

duplicate_top(st) == duplicate_nth(st, 0)

\* Faulty variant of StackPushNum: the number is pushed while loading too.
StackPushNumWhileLoading ==
    /\ Decoded("Stack", "push_num")
    /\ instruction' = "Stack"
    /\ command' = "push_num"
    /\ LET p   == Pos2("Stack")
           lit == num_parameter(p)
           r   == push_num(stack, lit.item)
       IN  IF lit.err # NoError
           THEN Effect(p, stack, heap, input, output, labels,
                       return_positions, lit.err)
           ELSE /\ Fits(r.stack)
                /\ Effect(lit.index + 1, r.stack, heap, input, output, labels,
                          return_positions, r.err)

\* The number that follows the code of the decoded Stack instruction.
Item == num_parameter(Pos2("Stack")).item

StackPushNum ==
    /\ Decoded("Stack", "push_num")
    /\ StackWithNumber("push_num", push_num(stack, Item))

StackDuplicateNth ==
    /\ Decoded("Stack", "duplicate_nth")
    /\ StackWithNumber("duplicate_nth", duplicate_nth(stack, Item))

StackDiscardN ==
    /\ Decoded("Stack", "discard_n")
    /\ StackWithNumber("discard_n", discard_n(stack, Item))

StackDuplicateTop ==
    /\ Decoded("Stack", "duplicate_top")
    /\ StackPlain("duplicate_top", duplicate_top(stack))

StackSwap ==
    /\ Decoded("Stack", "swap")
    /\ StackPlain("swap", swap(stack))

StackDiscardTop ==
    /\ Decoded("Stack", "discard_top")
    /\ StackPlain("discard_top", discard_top(stack))

(***************************************************************************)
(* Arithmetic.parse                                                        *)
(***************************************************************************)
\* r is what the handler makes of the stack.
ArithmeticCommand(cmd, r) ==
    /\ instruction' = "Arithmetic"
    /\ command' = cmd
    /\ LET p == Pos2("Arithmetic")
       IN  IF loading
           THEN Effect(p, stack, heap, input, output, labels,
                       return_positions, NoError)
           ELSE /\ InRange(r.stack)
                /\ Effect(p, r.stack, heap, input, output, labels,
                          return_positions, r.err)

ArithmeticAdd ==
    /\ Decoded("Arithmetic", "add")
    /\ ArithmeticCommand("add", add(stack))

ArithmeticSub ==
    /\ Decoded("Arithmetic", "sub")
    /\ ArithmeticCommand("sub", sub(stack))

ArithmeticMul ==
    /\ Decoded("Arithmetic", "mul")
    /\ ArithmeticCommand("mul", mul(stack))

ArithmeticFloordiv ==
    /\ Decoded("Arithmetic", "floordiv")
    /\ ArithmeticCommand("floordiv", floordiv(stack))

ArithmeticMod ==
    /\ Decoded("Arithmetic", "mod")
    /\ ArithmeticCommand("mod", mod(stack))

(***************************************************************************)
(* Heap.parse                                                              *)
(***************************************************************************)
\* r is what the handler makes of the stack and the heap.
HeapCommand(cmd, r) ==
    /\ instruction' = "Heap"
    /\ command' = cmd
    /\ LET p == Pos2("Heap")
       IN  IF loading
           THEN Effect(p, stack, heap, input, output, labels,
                       return_positions, NoError)
           ELSE Effect(p, r.stack, r.heap, input, output, labels,
                       return_positions, r.err)

HeapStore ==
    /\ Decoded("Heap", "store")
    /\ HeapCommand("store", store(stack, heap))

HeapPush ==
    /\ Decoded("Heap", "push")
    /\ HeapCommand("push", push(stack, heap))

(***************************************************************************)
(* IO.parse                                                                *)
(***************************************************************************)
\* r is what the handler makes of the stack and the output.
IOOutput(cmd, r) ==
    /\ instruction' = "IO"
    /\ command' = cmd
    /\ LET p == Pos2("IO")
       IN  IF loading
           THEN Effect(p, stack, heap, input, output, labels,
                       return_positions, NoError)
           ELSE /\ Len(r.output) <= MaxOutput
                /\ Effect(p, r.stack, heap, input, r.output, labels,
                          return_positions, r.err)

\* r is what the handler makes of the stack, the heap and the input.
IOInput(cmd, r) ==
    /\ instruction' = "IO"
    /\ command' = cmd
    /\ LET p == Pos2("IO")
       IN  IF loading
           THEN Effect(p, stack, heap, input, output, labels,
                       return_positions, NoError)
           ELSE Effect(p, r.stack, r.heap, r.input, output, labels,
                       return_positions, r.err)

IOOutputChar ==
    /\ Decoded("IO", "output_char")
    /\ IOOutput("output_char", output_char(stack, output))

IOOutputNum ==
    /\ Decoded("IO", "output_num")
    /\ IOOutput("output_num", output_num(stack, output))

IOInputChar ==
    /\ Decoded("IO", "input_char")
    /\ IOInput("input_char", input_char(stack, heap, input))

IOInputNum ==
    /\ Decoded("IO", "input_num")
    /\ IOInput("input_num", input_num(stack, heap, input))

(***************************************************************************)
(* FlowControl.parse                                                       *)
(***************************************************************************)
Flow(cmd) ==
    /\ Decoded("FlowControl", cmd)
    /\ instruction' = "FlowControl"
    /\ command' = cmd

FlowExit ==
    /\ Flow("exit")
    /\ LET p == Pos2("FlowControl")
       IN  Effect(IF loading THEN p ELSE exit(p), stack, heap, input, output,
                  labels, return_positions, NoError)

FlowMarkLabel ==
    /\ Flow("mark_label")
    /\ LET p   == Pos2("FlowControl")
           lit == label_parameter(p)
           r   == mark_label(labels, p, lit.name)
       IN  IF loading
           THEN Effect(IF r.err = NoError THEN lit.index ELSE p, stack, heap,
                       input, output, r.labels, return_positions, r.err)
           ELSE Effect(lit.index, stack, heap, input, output, labels,
                       return_positions, NoError)

FlowJump ==
    /\ Flow("jump")
    /\ LET p   == Pos2("FlowControl")
           lit == label_parameter(p)
           r   == jump(labels, p, lit.name)
       IN  IF loading
           THEN Effect(lit.index, stack, heap, input, output, labels,
                       return_positions, NoError)
           ELSE Effect(r.pos, stack, heap, input, output, labels,
                       return_positions, r.err)

\* jump_zero and jump_lt_zero: taken is the test on the popped value.
FlowJumpIf(cmd, taken) ==
    /\ Flow(cmd)
    /\ LET p   == Pos2("FlowControl")
           lit == label_parameter(p)
           r   == jump(labels, p, lit.name)
       IN  IF loading
           THEN Effect(lit.index, stack, heap, input, output, labels,
                       return_positions, NoError)
           ELSE IF stack = <<>>
           THEN Effect(p, stack, heap, input, output, labels,
                       return_positions, PopError)
           ELSE IF taken
           THEN Effect(r.pos, Pop(stack), heap, input, output, labels,
                       return_positions, r.err)
           ELSE Effect(lit.index, Pop(stack), heap, input, output, labels,
                       return_positions, NoError)

FlowJumpZero ==
    /\ Decoded("FlowControl", "jump_zero")
    /\ FlowJumpIf("jump_zero", stack # <<>> /\ Top(stack) = 0)

\* Faulty variant of FlowJumpLtZero: the jump is taken on zero as well.
FlowJumpLtZeroOrZero ==
    /\ Decoded("FlowControl", "jump_lt_zero")
    /\ FlowJumpIf("jump_lt_zero", stack # <<>> /\ Top(stack) <= 0)

FlowJumpLtZero ==
    /\ Decoded("FlowControl", "jump_lt_zero")
    /\ FlowJumpIf("jump_lt_zero", stack # <<>> /\ Top(stack) < 0)

FlowExitSubroutine ==
    /\ Flow("exit_subroutine")
    /\ LET p == Pos2("FlowControl")
           r == exit_subroutine(return_positions, p)
       IN  IF loading
           THEN Effect(p, stack, heap, input, output, labels,
                       return_positions, NoError)
           ELSE Effect(r.pos, stack, heap, input, output, labels,
                       r.return_positions, r.err)

\* self.pos = index comes before the call.
FlowCallSubroutine ==
    /\ Flow("call_subroutine")
    /\ LET p   == Pos2("FlowControl")
           lit == label_parameter(p)
           r   == call_subroutine(labels, return_positions, lit.index, lit.name)
       IN  IF loading
           THEN Effect(lit.index, stack, heap, input, output, labels,
                       return_positions, NoError)
           ELSE /\ r.err = NoError => Len(r.return_positions) <= MaxReturn
                /\ Effect(r.pos, stack, heap, input, output, labels,
                          r.return_positions, r.err)

(***************************************************************************)
(* run, after the loop.                                                    *)
(***************************************************************************)
LoopDone == status = "running" /\ Len(code) # 0 /\ ~(pos < Len(code))

\* Faulty variant of FinishLoading: the second run starts where the first
\* one stopped.
FinishLoadingKeepsPos ==
    /\ LoopDone
    /\ loading
    /\ loading' = FALSE
    /\ UNCHANGED <<code, inp, input, pos, stack, heap, output, labels,
                   return_positions, instruction, command, status, error>>

\* The first run has marked the labels: the second run starts at offset 0.
FinishLoading ==
    /\ LoopDone
    /\ loading
    /\ pos' = 0
    /\ loading' = FALSE
    /\ UNCHANGED <<code, inp, input, stack, heap, output, labels,
                   return_positions, instruction, command, status, error>>

\* The second run ends: it raises, or it returns and so does the first.
Terminate ==
    /\ LoopDone
    /\ ~loading
    /\ error' = run_end(return_positions, pos, Len(code))
    /\ status' = IF error' = NoError THEN "Success" ELSE "Failure"
    /\ UNCHANGED <<code, inp, input, pos, loading, stack, heap, output, labels,
                   return_positions, instruction, command>>

(***************************************************************************)
(* The programs and inputs of the model: every text over the three         *)
(* characters up to MaxCodeLen, and a set of longer programs written with  *)
(* the instruction codes of the five families.                             *)
(***************************************************************************)
RawPrograms == UNION {[1 .. n -> {S, T, N}] : n \in 0 .. MaxCodeLen}

PUSH(lit) == <<S, S>> \o lit \o <<N>>
DUPN(lit) == <<S, T, S>> \o lit \o <<N>>
DISCN(lit) == <<S, T, N>> \o lit \o <<N>>
DUP == <<S, N, S>>
SWAP == <<S, N, T>>
DROP == <<S, N, N>>
ADD == <<T, S, S, S>>
SUB == <<T, S, S, T>>
MUL == <<T, S, S, N>>
DIV == <<T, S, T, S>>
MOD == <<T, S, T, T>>
STORE == <<T, T, S>>
LOAD == <<T, T, T>>
OUTC == <<T, N, S, S>>
OUTN == <<T, N, S, T>>
INC == <<T, N, T, S>>
INN == <<T, N, T, T>>
MARK(name) == <<N, S, S>> \o name \o <<N>>
CALL(name) == <<N, S, T>> \o name \o <<N>>
JMP(name) == <<N, S, N>> \o name \o <<N>>
JZ(name) == <<N, T, S>> \o name \o <<N>>
JN(name) == <<N, T, T>> \o name \o <<N>>
RET == <<N, T, N>>
EXIT == <<N, N, N>>

\* Number literals 0, 1, 2, -1, -2 and label names.
L0 == <<S>>
L1 == <<S, T>>
L2 == <<S, T, S>>
Lm1 == <<T, T>>
Lm2 == <<T, T, S>>
A == <<S>>
B == <<T>>

ScenarioPrograms ==
    { PUSH(L0) \o OUTN \o EXIT,
      PUSH(L1) \o PUSH(L2) \o ADD \o OUTN \o EXIT,
      PUSH(L2) \o PUSH(Lm1) \o SUB \o PUSH(L1) \o MUL \o OUTN \o EXIT,
      PUSH(Lm2) \o PUSH(L2) \o DIV \o OUTN \o EXIT,
      PUSH(L1) \o PUSH(Lm2) \o MOD \o OUTN \o EXIT,
      PUSH(L1) \o PUSH(L0) \o DIV \o EXIT,
      PUSH(L1) \o PUSH(L0) \o MOD \o EXIT,
      PUSH(L1) \o PUSH(L2) \o SWAP \o DROP \o DUP \o OUTN \o OUTN \o EXIT,
      PUSH(L1) \o PUSH(L2) \o DUPN(L1) \o DISCN(L1) \o OUTN \o EXIT,
      PUSH(L1) \o DUPN(L2) \o EXIT,
      PUSH(L1) \o DUPN(Lm1) \o EXIT,
      PUSH(L1) \o PUSH(L2) \o DISCN(Lm1) \o EXIT,
      PUSH(L1) \o PUSH(L2) \o STORE \o PUSH(L1) \o LOAD \o OUTN \o EXIT,
      PUSH(L1) \o LOAD \o EXIT,
      PUSH(L0) \o INC \o PUSH(L0) \o LOAD \o OUTC \o EXIT,
      PUSH(L0) \o INN \o PUSH(L0) \o LOAD \o OUTN \o EXIT,
      PUSH(Lm1) \o OUTC \o EXIT,
      CALL(A) \o EXIT \o MARK(A) \o RET,
      CALL(A) \o MARK(A) \o EXIT,
      CALL(A) \o MARK(A),
      CALL(A) \o EXIT \o MARK(A) \o CALL(B) \o RET \o MARK(B) \o RET,
      CALL(A) \o EXIT \o MARK(A) \o CALL(B) \o RET \o MARK(B) \o EXIT,
      MARK(A) \o CALL(A),
      MARK(A) \o RET \o EXIT,
      JMP(A) \o PUSH(L1) \o MARK(A) \o EXIT,
      MARK(A) \o JMP(A),
      PUSH(L1) \o MARK(A) \o PUSH(L1) \o SUB \o DUP \o JN(B) \o JMP(A)
          \o MARK(B) \o OUTN \o EXIT,
      PUSH(L0) \o JZ(A) \o PUSH(L1) \o OUTN \o MARK(A) \o EXIT,
      PUSH(L1) \o JZ(A) \o PUSH(L1) \o OUTN \o MARK(A) \o EXIT,
      PUSH(Lm1) \o JN(A) \o PUSH(L1) \o OUTN \o MARK(A) \o EXIT,
      PUSH(L0) \o JN(A) \o PUSH(L1) \o OUTN \o MARK(A) \o EXIT,
      PUSH(L1) \o OUTN \o JMP(B) \o MARK(A) \o EXIT,
      PUSH(L0) \o JZ(B) \o EXIT,
      PUSH(L1) \o JZ(B) \o EXIT,
      PUSH(L1) \o OUTN \o CALL(B) \o EXIT,
      MARK(A) \o PUSH(L1) \o OUTN \o MARK(A) \o EXIT,
      MARK(A) \o MARK(B) \o MARK(A) \o EXIT,
      MARK(A) \o EXIT \o MARK(B) \o EXIT \o PUSH(L1),
      PUSH(L1) \o OUTN \o EXIT \o PUSH(L2) \o OUTN,
      MARK(A) \o PUSH(L1) \o PUSH(<<S, T>>),
      PUSH(L1) \o OUTN \o MARK(A) \o JMP(<<S, S>>),
      PUSH(L1) \o OUTN }

\* Every sequence of at most MaxInstr of these instructions is a program.
Pieces ==
    { MARK(A), MARK(B), CALL(A), CALL(B), JMP(A), JZ(A), JN(B), RET, EXIT,
      PUSH(L0), PUSH(Lm1), OUTN }

RECURSIVE Flatten(_)
Flatten(ss) == IF ss = <<>> THEN <<>> ELSE Head(ss) \o Flatten(Tail(ss))

ComposedPrograms ==
    UNION {{Flatten(ss) : ss \in [1 .. n -> Pieces]} : n \in 0 .. MaxInstr}

\* The literal of number n: the sign, then the binary digits of its
\* magnitude, most significant first.
RECURSIVE Bits(_)
Bits(n) ==
    IF n = 0 THEN <<>> ELSE Bits(n \div 2) \o <<IF n % 2 = 1 THEN T ELSE S>>

Lit(n) == <<IF n < 0 THEN T ELSE S>> \o Bits(Abs(n))

\* Pushes of 1, 2, ..., k: the stack they leave has k on top.
RECURSIVE Pushes(_)
Pushes(k) == IF k = 0 THEN <<>> ELSE Pushes(k - 1) \o PUSH(Lit(k))

\* Every instruction of the Stack family on every stack of 0 .. MaxStack
\* values, with every operand from -1 to MaxStack.
StackPrograms ==
    { Pushes(k) \o op \o EXIT :
          k \in 0 .. MaxStack,
          op \in {DUP, SWAP, DROP}
                 \cup {DUPN(Lit(n)) : n \in -1 .. MaxStack}
                 \cup {DISCN(Lit(n)) : n \in -1 .. MaxStack} }

\* floordiv and mod of every dividend and divisor in -MaxVal .. MaxVal, and
\* of a lone operand.
DivisionPrograms ==
    { PUSH(Lit(b)) \o PUSH(Lit(a)) \o op \o OUTN \o EXIT :
          b \in -MaxVal .. MaxVal, a \in -MaxVal .. MaxVal, op \in {DIV, MOD} }
    \cup { PUSH(Lit(a)) \o op \o EXIT : a \in {0, 1}, op \in {DIV, MOD} }

\* Two writes to the heap, by store or by an input instruction, and a read.
HeapWrites ==
    { <<>>,
      PUSH(L0) \o PUSH(L1) \o STORE,
      PUSH(L0) \o PUSH(L2) \o STORE,
      PUSH(L1) \o PUSH(L2) \o STORE,
      PUSH(L0) \o INC,
      PUSH(L1) \o INN }

HeapReads == { PUSH(L0) \o LOAD, PUSH(L1) \o LOAD }

HeapPrograms ==
    { w1 \o w2 \o r \o OUTN \o EXIT :
          w1 \in HeapWrites, w2 \in HeapWrites, r \in HeapReads }

Programs ==
    RawPrograms \cup ScenarioPrograms \cup ComposedPrograms
        \cup StackPrograms \cup DivisionPrograms \cup HeapPrograms

\* The inputs, as code points: "", "7\n", "-2\nA", "A", "x\n".
Inputs ==
    { <<>>, <<55, 10>>, <<45, 50, 10, 65>>, <<65>>, <<120, 10>> }

\* Only the input instructions of the IO family, whose codes start with
\* tab line-feed tab, read the input.
ReadsInput(c) ==
    \E i \in 1 .. Len(c) - 2 : SubSeq(c, i, i + 2) = <<T, N, T>>

Init ==
    /\ code \in Programs
    /\ inp \in (IF ReadsInput(code) THEN Inputs ELSE {<<>>})
    /\ input = inp
    /\ pos = 0
    /\ loading = TRUE
    /\ stack = <<>>
    /\ heap = EmptyMap
    /\ output = <<>>
    /\ labels = EmptyMap
    /\ return_positions = <<>>
    /\ instruction = ""
    /\ command = ""
    /\ status = "running"
    /\ error = NoError

Next ==
    \/ EmptyProgram
    \/ UnknownInstruction
    \/ UnknownCommand
    \/ StackPushNum
    \/ StackDuplicateNth
    \/ StackDiscardN
    \/ StackDuplicateTop
    \/ StackSwap
    \/ StackDiscardTop
    \/ ArithmeticAdd
    \/ ArithmeticSub
    \/ ArithmeticMul
    \/ ArithmeticFloordiv
    \/ ArithmeticMod
    \/ HeapStore
    \/ HeapPush
    \/ IOOutputChar
    \/ IOOutputNum
    \/ IOInputChar
    \/ IOInputNum
    \/ FlowExit
    \/ FlowMarkLabel
    \/ FlowJump
    \/ FlowJumpZero
    \/ FlowJumpLtZero
    \/ FlowExitSubroutine
    \/ FlowCallSubroutine
    \/ FinishLoading
    \/ Terminate

Spec == Init /\ [][Next]_vars

(***************************************************************************)
(* What the next iteration of the loop decodes, read off the program text. *)
(***************************************************************************)
NumberCommand ==
    \/ Decoded("Stack", "push_num")
    \/ Decoded("Stack", "duplicate_nth")
    \/ Decoded("Stack", "discard_n")

LabelCommand ==
    \E cmd \in {"mark_label", "call_subroutine", "jump", "jump_zero",
                "jump_lt_zero"} : Decoded("FlowControl", cmd)

\* The offset at which the operand of the decoded instruction starts.
NumberStart == Pos2("Stack")

LabelStart == Pos2("FlowControl")

\* The operand at offset p is the terminator alone.
EmptyBody(p) == p < Len(code) /\ code[p + 1] = N

\* The operand at offset p is one sign character and the terminator.
SignOnly(p) == p + 1 < Len(code) /\ code[p + 1] # N /\ code[p + 2] = N

\* No line-feed lies between offset p and the end of the program.
Unterminated(p) == \A i \in (p + 1) .. Len(code) : code[i] # N

AtEndOfProgram == LoopDone /\ ~loading /\ pos = Len(code)

(***************************************************************************)
(* C1                                                                      *)
(***************************************************************************)
\* C1, as stated: a run that ends with Success has an empty return stack
\* (an exit executed with a non-empty return stack would not end in
\* Success).
C1_SuccessHasEmptyReturnStack ==
    status = "Success" => return_positions = <<>>

\* C1, amended: a run ends with Success exactly by executing exit in the
\* Execution phase, and exit leads to Success whatever the return stack
\* holds; the failure "Subroutine does not properly exit or return" is
\* raised only when the program counter reaches end-of-program with a
\* non-empty return stack.
C1_ExitSucceedsWhateverReturnStack ==
    /\ [](status = "Success" => pos = Inf /\ ~loading /\ command = "exit")
    /\ [](error = SubroutineError =>
              /\ status = "Failure"
              /\ return_positions # <<>>
              /\ pos = Len(code)
              /\ ~loading)
    /\ [][(~loading /\ Decoded("FlowControl", "exit")) =>
              (pos' = Inf /\ return_positions' = return_positions)]_vars
    /\ [][(status = "running" /\ pos = Inf) =>
              (status' = "Success" /\ return_positions' = return_positions)]_vars

\* C1, witness: Success with a return position still on the return stack.
C1_SuccessInsideSubroutine ==
    status = "Success" /\ return_positions # <<>>

(***************************************************************************)
(* C2                                                                      *)
(***************************************************************************)
\* C2, as stated: a numeric literal that is the terminator alone is not an
\* error, and Discovery advances past the terminator.
C2_LoneTerminatorIsZero ==
    [][(NumberCommand /\ EmptyBody(NumberStart)) =>
           /\ error' # OnlyTerminalError
           /\ loading => (status' = "running" /\ pos' = NumberStart + 1)]_vars

\* C2, amended: a numeric literal that is the terminator alone is a fatal
\* SyntaxError in either phase, with the stack untouched and the program
\* counter left at the terminator; a literal of one sign character and the
\* terminator decodes to 0 and the program counter advances past the
\* terminator.
C2_LoneTerminatorIsFatal ==
    /\ [][(NumberCommand /\ EmptyBody(NumberStart)) =>
              /\ status' = "Failure"
              /\ error' = OnlyTerminalError
              /\ pos' = NumberStart
              /\ stack' = stack]_vars
    /\ [][(NumberCommand /\ SignOnly(NumberStart)) =>
              /\ error' \notin {OnlyTerminalError, StringIndexError}
              /\ loading => (status' = "running" /\ pos' = NumberStart + 2)
              /\ (~loading /\ Decoded("Stack", "push_num")) =>
                     /\ status' = "running"
                     /\ stack' = Append(stack, 0)
                     /\ pos' = NumberStart + 2]_vars

\* C2, witness: push_num has failed on a literal that is the terminator alone.
C2_LoneTerminatorRefused ==
    /\ status = "Failure"
    /\ error = OnlyTerminalError
    /\ command = "push_num"
    /\ EmptyBody(pos)

(***************************************************************************)
(* C3                                                                      *)
(***************************************************************************)
\* C3, as stated: decoding a numeric or label operand with no line-feed
\* between its start and the end of the program is fatal, in Discovery and
\* in Execution.
C3_UnterminatedLiteralIsFatal ==
    [][(\/ NumberCommand /\ Unterminated(NumberStart)
        \/ LabelCommand /\ Unterminated(LabelStart)) =>
           status' = "Failure"]_vars

(***************************************************************************)
(* C4                                                                      *)
(***************************************************************************)
\* C4, as stated: in Execution, reaching end-of-program without exit ends
\* the run with "Unclean termination", whatever the return stack holds.
C4_EndOfProgramIsUnclean ==
    [][AtEndOfProgram =>
           (status' = "Failure" /\ error' = UncleanTerminationError)]_vars

\* C4, amended: in Execution, reaching end-of-program without exit ends the
\* run with a failure, never Success: "Unclean termination" when the return
\* stack is empty, "Subroutine does not properly exit or return" when it is
\* not.
C4_EndOfProgramFails ==
    /\ [][AtEndOfProgram =>
              /\ status' = "Failure"
              /\ error' = IF return_positions = <<>>
                          THEN UncleanTerminationError
                          ELSE SubroutineError]_vars
    /\ [](error = UncleanTerminationError =>
              /\ status = "Failure"
              /\ ~loading
              /\ pos = Len(code)
              /\ return_positions = <<>>)

\* C4, witness: the program ran off its end inside a called subroutine.
C4_EndOfProgramInsideSubroutine ==
    /\ status = "Failure"
    /\ error = SubroutineError
    /\ pos = Len(code)
    /\ command = "call_subroutine"

(***************************************************************************)
(* C5                                                                      *)
(***************************************************************************)
\* C5: throughout Discovery the stack, the heap, the return stack, the
\* input and the output keep their initial values.
C5_DiscoveryLeavesMachineUntouched ==
    loading =>
        /\ stack = <<>>
        /\ heap = EmptyMap
        /\ return_positions = <<>>
        /\ input = inp
        /\ output = <<>>

\* C5, witness: Discovery has decoded a push and a label, with input waiting.
C5_DiscoveryDecodedPush ==
    /\ loading
    /\ status = "running"
    /\ command = "push_num"
    /\ pos > 0
    /\ labels # EmptyMap
    /\ inp # <<>>

(***************************************************************************)
(* C6                                                                      *)
(***************************************************************************)
\* The label operand of the decoded instruction, with its terminator.
LabelOperand == label_parameter(LabelStart).name

\* C6: marking a name that the label table already holds fails with
\* "Label already exists" at that mark_label, in Discovery, with the table
\* unchanged and nothing output; that failure occurs in Discovery only, and
\* an entry of the label table is never replaced or removed.
C6_DuplicateLabelFailsInDiscovery ==
    /\ [][(/\ loading
           /\ Decoded("FlowControl", "mark_label")
           /\ LabelOperand \in DOMAIN labels) =>
              /\ status' = "Failure"
              /\ error' = LabelExistsError
              /\ loading'
              /\ output' = <<>>
              /\ labels' = labels]_vars
    /\ [](error = LabelExistsError =>
              status = "Failure" /\ loading /\ output = <<>>)
    /\ [][\A l \in DOMAIN labels :
              l \in DOMAIN labels' /\ labels'[l] = labels[l]]_vars

\* C6, witness: the second mark_label of a name has failed, after another
\* label was marked in between.
C6_SecondMarkRefused ==
    /\ status = "Failure"
    /\ error = LabelExistsError
    /\ loading
    /\ command = "mark_label"
    /\ Cardinality(DOMAIN labels) = 2

(***************************************************************************)
(* C7                                                                      *)
(***************************************************************************)
\* Offset o is immediately after the terminating line-feed of the literal
\* that starts at offset p.
AfterLiteral(p, o) ==
    /\ o > p
    /\ o <= Len(code)
    /\ code[o] = N
    /\ \A i \in (p + 1) .. (o - 1) : code[i] # N

\* Name l, terminator included, is the operand of a mark_label code and
\* offset o is immediately after it.
AfterMark(l, o) ==
    /\ o <= Len(code)
    /\ o - Len(l) - 3 >= 0
    /\ SubSeq(code, o - Len(l) - 2, o) = <<N, S, S>> \o l
    /\ AfterLiteral(o - Len(l), o)

\* C7: the label table maps every marked name to the offset immediately
\* after the terminating line-feed of its mark_label (for every terminated
\* name in every state, and for every entry once Execution has begun);
\* Discovery records each mark_label there; and an executed jump sets the
\* program counter to exactly the offset the table holds, wherever the
\* mark_label lies in the text.
C7_JumpGoesToOffsetAfterMark ==
    /\ [](\A l \in DOMAIN labels : l # <<>> => AfterMark(l, labels[l]))
    /\ [](~loading => \A l \in DOMAIN labels : AfterMark(l, labels[l]))
    /\ [][(/\ loading
           /\ Decoded("FlowControl", "mark_label")
           /\ ~Unterminated(LabelStart)
           /\ LabelOperand \notin DOMAIN labels) =>
              /\ status' = "running"
              /\ LabelOperand \in DOMAIN labels'
              /\ AfterLiteral(LabelStart, labels'[LabelOperand])
              /\ pos' = labels'[LabelOperand]]_vars
    /\ [][(/\ ~loading
           /\ Decoded("FlowControl", "jump")
           /\ LabelOperand \in DOMAIN labels) =>
              /\ status' = "running"
              /\ pos' = labels[LabelOperand]
              /\ labels' = labels]_vars

\* C7, witness: a forward jump has been executed, over a push, to a label
\* marked later in the text.
C7_ForwardJumpTaken ==
    /\ code = JMP(A) \o PUSH(L1) \o MARK(A) \o EXIT
    /\ ~loading
    /\ command = "jump"
    /\ pos = labels[A \o <<N>>]
    /\ pos = Len(code) - 3

(***************************************************************************)
(* C8                                                                      *)
(***************************************************************************)
\* The decoded instruction is a jump, a call, or a conditional jump whose
\* condition holds of the top of the stack.
TakenJump ==
    \/ Decoded("FlowControl", "jump")
    \/ Decoded("FlowControl", "call_subroutine")
    \/ Decoded("FlowControl", "jump_zero") /\ stack # <<>> /\ Top(stack) = 0
    \/ Decoded("FlowControl", "jump_lt_zero") /\ stack # <<>> /\ Top(stack) < 0

\* C8: in Execution a jump, a call or a taken conditional jump to a name
\* the label table does not hold is fatal (the KeyError of the lookup), and
\* the failing instruction leaves the output as it was.
C8_UndefinedLabelIsFatal ==
    [][(~loading /\ TakenJump /\ LabelOperand \notin DOMAIN labels) =>
           /\ status' = "Failure"
           /\ error' = LabelKeyError(LabelOperand)
           /\ output' = output]_vars

\* C8, witness: the first instruction executed was a jump to an unknown
\* label, and the run has failed with nothing output.
C8_FirstJumpUndefined ==
    /\ status = "Failure"
    /\ error = LabelKeyError(A \o <<N>>)
    /\ command = "jump"
    /\ pos = 3
    /\ output = <<>>

(***************************************************************************)
(* C9                                                                      *)
(***************************************************************************)
ExecutesCall == ~loading /\ Decoded("FlowControl", "call_subroutine")

ExecutesReturn == ~loading /\ Decoded("FlowControl", "exit_subroutine")

\* C9: call_subroutine pushes the offset immediately after its own label
\* literal and then jumps; exit_subroutine pops the most recently pushed
\* offset into the program counter, and is fatal on an empty return stack;
\* nothing else changes the return stack.
C9_CallReturnIsLIFO ==
    /\ [][ExecutesCall =>
              /\ \E o \in 1 .. Len(code) :
                     /\ AfterLiteral(LabelStart, o)
                     /\ return_positions' = Append(return_positions, o)
              /\ LabelOperand \in DOMAIN labels =>
                     (status' = "running" /\ pos' = labels[LabelOperand])]_vars
    /\ [][ExecutesReturn =>
              IF return_positions = <<>>
              THEN /\ status' = "Failure"
                   /\ error' = ReturnOutsideError
                   /\ return_positions' = <<>>
              ELSE /\ status' = "running"
                   /\ pos' = return_positions[Len(return_positions)]
                   /\ return_positions' =
                          SubSeq(return_positions, 1, Len(return_positions) - 1)]_vars
    /\ [][~(ExecutesCall \/ ExecutesReturn) =>
              return_positions' = return_positions]_vars

\* C9, witness: the inner of two nested calls has returned to the
\* instruction after it, with the outer call still to return from.
C9_InnerCallReturned ==
    /\ code = CALL(A) \o EXIT \o MARK(A) \o CALL(B) \o RET \o MARK(B) \o RET
    /\ ~loading
    /\ status = "running"
    /\ command = "exit_subroutine"
    /\ return_positions = <<Len(CALL(A))>>
    /\ pos = Len(CALL(A) \o EXIT \o MARK(A) \o CALL(B))

(***************************************************************************)
(* C10                                                                     *)
(***************************************************************************)
\* C10, as stated: whenever exit is decoded, in Discovery or in Execution,
\* the program counter becomes the exit sentinel, so that no further
\* instruction is decoded.
C10_ExitStopsDecodingInEitherPhase ==
    [][Decoded("FlowControl", "exit") => (pos' = Inf /\ ~Looping')]_vars

\* C10, amended: whenever exit is decoded in Execution, no further
\* instruction is decoded and the run ends with Success; an exit decoded in
\* Discovery has no effect and decoding goes on after it.
C10_ExitStopsExecutionOnly ==
    /\ [][(~loading /\ Decoded("FlowControl", "exit")) =>
              /\ pos' = Inf
              /\ status' = "running"
              /\ ~Looping'
              /\ UNCHANGED <<stack, heap, input, output, labels,
                             return_positions>>]_vars
    /\ [][(loading /\ Decoded("FlowControl", "exit")) =>
              /\ pos' = Pos2("FlowControl")
              /\ status' = "running"
              /\ loading'
              /\ UNCHANGED <<stack, heap, input, output, labels,
                             return_positions>>]_vars
    /\ [](pos = Inf => ~loading /\ status \in {"running", "Success"})
    /\ [][(pos = Inf /\ status = "running") =>
              (status' = "Success" /\ pos' = Inf)]_vars
    /\ [][pos = Inf => pos' = Inf]_vars

\* C10, witness: exit was decoded in Discovery, decoding went on to the end
\* of the program, and the Execution that followed ended with Success at the
\* first exit.
C10_SuccessAfterExitSkippedInDiscovery ==
    /\ code = MARK(A) \o EXIT \o MARK(B) \o EXIT \o PUSH(L1)
    /\ status = "Success"
    /\ command = "exit"
    /\ DOMAIN labels = {A \o <<N>>, B \o <<N>>}
    /\ stack = <<>>

(***************************************************************************)
(* C11                                                                     *)
(***************************************************************************)
\* The decoded instruction is executed on two operands: the divisor on top
\* of the stack and the dividend below it.
Divides(cmd) == ~loading /\ Decoded("Arithmetic", cmd) /\ Len(stack) >= 2

Divisor == Top(stack)

Dividend == Top(Pop(stack))

\* q is b divided by a, rounded toward negative infinity.
IsFloor(q, b, a) ==
    IF a > 0 THEN q * a <= b /\ b < (q + 1) * a
    ELSE q * a >= b /\ b > (q + 1) * a

\* C11: with a nonzero divisor a on top of the stack and the dividend b
\* below it, floordiv replaces both by the quotient rounded toward negative
\* infinity, mod replaces both by a remainder that is 0 or has the sign of
\* a, and quotient * a + remainder = b.
C11_FloorDivisionIdentity ==
    /\ [][(Divides("floordiv") /\ Divisor # 0) =>
              /\ status' = "running"
              /\ Len(stack') = Len(stack) - 1
              /\ Pop(stack') = Pop(Pop(stack))
              /\ IsFloor(Top(stack'), Dividend, Divisor)]_vars
    /\ [][(Divides("mod") /\ Divisor # 0) =>
              /\ status' = "running"
              /\ Len(stack') = Len(stack) - 1
              /\ Pop(stack') = Pop(Pop(stack))
              /\ Top(stack') = 0 \/ (Top(stack') < 0) = (Divisor < 0)
              /\ Abs(Top(stack')) < Abs(Divisor)
              /\ \E q \in (-Abs(Dividend) - 1) .. (Abs(Dividend) + 1) :
                     /\ IsFloor(q, Dividend, Divisor)
                     /\ q * Divisor + Top(stack') = Dividend]_vars

\* C11, witness: floordiv of -3 by 2 has left -2, the quotient rounded down
\* and not toward zero.
C11_NegativeDividendRoundedDown ==
    /\ code = PUSH(Lit(-3)) \o PUSH(Lit(2)) \o DIV \o OUTN \o EXIT
    /\ ~loading
    /\ status = "running"
    /\ command = "floordiv"
    /\ stack = <<-2>>

(***************************************************************************)
(* C12                                                                     *)
(***************************************************************************)
\* C12: floordiv and mod executed with the divisor 0 on top of the stack
\* and a dividend below it fail with ZeroDivisionError; the two operands
\* have been popped and nothing is pushed; the run halts there; and that
\* error is raised by floordiv and mod only.
C12_DivisionByZeroPushesNothing ==
    /\ [][((Divides("floordiv") \/ Divides("mod")) /\ Divisor = 0) =>
              /\ status' = "Failure"
              /\ error' = ZeroDivisionError
              /\ stack' = Pop(Pop(stack))
              /\ UNCHANGED <<heap, output, input>>]_vars
    /\ [](error = ZeroDivisionError =>
              /\ status = "Failure"
              /\ ~loading
              /\ command \in {"floordiv", "mod"})
    /\ [][status # "Failure"]_vars

\* C12, witness: 1 divided by the literal 0 has failed, with nothing left
\* on the stack.
C12_DividedByLiteralZero ==
    /\ code = PUSH(L1) \o PUSH(L0) \o DIV \o EXIT
    /\ status = "Failure"
    /\ error = ZeroDivisionError
    /\ command = "floordiv"
    /\ stack = <<>>

(***************************************************************************)
(* C13                                                                     *)
(***************************************************************************)
\* C13: the phase changes only from Discovery to Execution, only when
\* Discovery's program counter has reached end-of-program with no error,
\* and the program counter is 0 in the first Execution state; a Discovery
\* that reaches end-of-program does change phase; and Execution never
\* returns to Discovery, so the phase changes at most once.
C13_PhaseChangesOnceAtEndOfDiscovery ==
    /\ [][loading' # loading =>
              /\ loading
              /\ ~loading'
              /\ pos = Len(code)
              /\ status = "running"
              /\ error = NoError
              /\ status' = "running"
              /\ pos' = 0]_vars
    /\ [][(loading /\ LoopDone) => (~loading' /\ pos' = 0)]_vars
    /\ [][~loading => ~loading']_vars

\* C13, witness: the first state of Execution, after a Discovery that
\* marked a label and passed over an exit.
C13_FirstExecutionState ==
    /\ ~loading
    /\ status = "running"
    /\ pos = 0
    /\ command = "exit"
    /\ labels # EmptyMap
    /\ output = <<>>

(***************************************************************************)
(* C14                                                                     *)
(***************************************************************************)
\* The step of a conditional jump cmd executed on a non-empty stack, where
\* taken is its test on the top of the stack: one value is popped; when
\* taken, the program counter becomes the label's offset (a name the table
\* does not hold is fatal); otherwise the program counter becomes the
\* offset immediately after the label literal, which is not the label's
\* offset, and no error is raised whether or not the table holds the name.
JumpIfStep(cmd, taken) ==
    (~loading /\ Decoded("FlowControl", cmd) /\ stack # <<>>) =>
        /\ stack' = Pop(stack)
        /\ IF taken
           THEN IF LabelOperand \in DOMAIN labels
                THEN status' = "running" /\ pos' = labels[LabelOperand]
                ELSE status' = "Failure" /\ error' = LabelKeyError(LabelOperand)
           ELSE /\ status' = "running"
                /\ error' = NoError
                /\ AfterLiteral(LabelStart, pos')
                /\ LabelOperand \in DOMAIN labels => pos' # labels[LabelOperand]

\* C14: jump_zero and jump_lt_zero each pop exactly one value; jump_zero
\* jumps to the label's offset iff the value is 0, jump_lt_zero iff it is
\* negative; otherwise execution falls through to the offset immediately
\* after the label literal, without any label lookup.
C14_ConditionalJumpsPopAndTest ==
    /\ [][JumpIfStep("jump_zero", stack # <<>> /\ Top(stack) = 0)]_vars
    /\ [][JumpIfStep("jump_lt_zero", stack # <<>> /\ Top(stack) < 0)]_vars

\* C14, witness: jump_zero on the value 1 has fallen through to the
\* instruction after its literal, although its label is marked nowhere.
C14_FellThroughUndefinedLabel ==
    /\ code = PUSH(L1) \o JZ(B) \o EXIT
    /\ ~loading
    /\ status = "running"
    /\ command = "jump_zero"
    /\ stack = <<>>
    /\ labels = EmptyMap
    /\ pos = Len(PUSH(L1) \o JZ(B))

(***************************************************************************)
(* C15                                                                     *)
(***************************************************************************)
\* The decoded Stack instruction cmd is executed and its number decodes.
ExecutesWithNumber(cmd) ==
    /\ ~loading
    /\ Decoded("Stack", cmd)
    /\ num_parameter(NumberStart).err = NoError

\* C15: on a stack of s > 0 values discard_n(n) with 0 <= n < s removes
\* the n values immediately below the top and keeps the top and the deeper
\* values in order; with n < 0 or n >= s it leaves the former top alone; on
\* an empty stack it is fatal.
C15_DiscardKeepsTop ==
    [][ExecutesWithNumber("discard_n") =>
           IF stack = <<>>
           THEN status' = "Failure" /\ error' = PopError /\ stack' = <<>>
           ELSE /\ status' = "running"
                /\ stack' = IF 0 <= Item /\ Item < Len(stack)
                            THEN SubSeq(stack, 1, Len(stack) - 1 - Item)
                                     \o <<stack[Len(stack)]>>
                            ELSE <<stack[Len(stack)]>>]_vars

\* C15, witness: discard_n(1) on the stack 1 2 3 has removed the 2.
C15_DiscardedOneBelowTop ==
    /\ code = Pushes(3) \o DISCN(Lit(1)) \o EXIT
    /\ ~loading
    /\ status = "running"
    /\ command = "discard_n"
    /\ stack = <<1, 3>>

(***************************************************************************)
(* C16                                                                     *)
(***************************************************************************)
\* C16: duplicate_nth(n) on a stack of s values succeeds iff 0 <= n <= s-1,
\* and then appends a copy of the value at depth n from the top and leaves
\* the values below as they were; otherwise it is fatal and the stack is
\* unchanged.  duplicate_top does what duplicate_nth(0) does: it appends a
\* copy of the top, and is fatal in the same way on an empty stack.
C16_DuplicateCopiesNthFromTop ==
    /\ [][ExecutesWithNumber("duplicate_nth") =>
              IF 0 <= Item /\ Item <= Len(stack) - 1
              THEN /\ status' = "running"
                   /\ stack' = Append(stack, stack[Len(stack) - Item])
              ELSE /\ status' = "Failure"
                   /\ error' = IF Item < 0 THEN DuplicateNegativeError
                               ELSE DuplicateExceedsError
                   /\ stack' = stack]_vars
    /\ [][(~loading /\ Decoded("Stack", "duplicate_top")) =>
              IF stack # <<>>
              THEN /\ status' = "running"
                   /\ stack' = Append(stack, stack[Len(stack)])
              ELSE /\ status' = "Failure"
                   /\ error' = DuplicateExceedsError
                   /\ stack' = stack]_vars

\* C16, witness: duplicate_nth(1) on the stack 1 2 has appended a copy of
\* the 1 below the top.
C16_DuplicatedBelowTop ==
    /\ code = Pushes(2) \o DUPN(Lit(1)) \o EXIT
    /\ ~loading
    /\ status = "running"
    /\ command = "duplicate_nth"
    /\ stack = <<1, 2, 1>>

(***************************************************************************)
(* C17                                                                     *)
(***************************************************************************)
\* C17: swap on a stack of at least two values exchanges the top two: the
\* former second value is on top, the former top directly below it, and
\* the deeper values are unchanged; on fewer than two values it is fatal.
C17_SwapExchangesTopTwo ==
    [][(~loading /\ Decoded("Stack", "swap")) =>
           IF Len(stack) >= 2
           THEN /\ status' = "running"
                /\ Len(stack') = Len(stack)
                /\ stack'[Len(stack)] = stack[Len(stack) - 1]
                /\ stack'[Len(stack) - 1] = stack[Len(stack)]
                /\ SubSeq(stack', 1, Len(stack) - 2)
                       = SubSeq(stack, 1, Len(stack) - 2)
           ELSE /\ status' = "Failure"
                /\ error' = PopError]_vars

\* C17, witness: swap on the stack 1 2 3 has left 1 3 2.
C17_SwappedTopTwo ==
    /\ code = Pushes(3) \o SWAP \o EXIT
    /\ ~loading
    /\ status = "running"
    /\ command = "swap"
    /\ stack = <<1, 3, 2>>

(***************************************************************************)
(* C18                                                                     *)
(***************************************************************************)
\* The step writes v to heap address k and changes no other entry.
WritesHeap(k, v) ==
    /\ DOMAIN heap' = DOMAIN heap \cup {k}
    /\ heap'[k] = v
    /\ \A x \in DOMAIN heap \ {k} : heap'[x] = heap[x]

Executes(family, cmd) == ~loading /\ Decoded(family, cmd)

\* C18: store pops the value first and the address second and writes that
\* one entry; input_char and input_num write the entry at the popped
\* address; every other step leaves the heap as it is, so that an entry is
\* never removed and holds the value most recently written to its address;
\* heap push replaces the address on top of the stack by the entry at that
\* address, and is fatal when the address was never written.
C18_HeapHoldsLastWrite ==
    /\ [][(Executes("Heap", "store") /\ Len(stack) >= 2) =>
              /\ status' = "running"
              /\ stack' = Pop(Pop(stack))
              /\ WritesHeap(Top(Pop(stack)), Top(stack))]_vars
    /\ [][(Executes("IO", "input_char") /\ stack # <<>> /\ input # <<>>) =>
              /\ status' = "running"
              /\ stack' = Pop(stack)
              /\ WritesHeap(Top(stack), Head(input))]_vars
    /\ [][(Executes("IO", "input_num") /\ status' = "running") =>
              /\ stack # <<>>
              /\ stack' = Pop(stack)
              /\ WritesHeap(Top(stack), heap'[Top(stack)])]_vars
    /\ [][heap' # heap =>
              /\ \/ Executes("Heap", "store")
                 \/ Executes("IO", "input_char")
                 \/ Executes("IO", "input_num")
              /\ status' = "running"
              /\ \A x \in DOMAIN heap : x \in DOMAIN heap']_vars
    /\ [][(Executes("Heap", "push") /\ stack # <<>>) =>
              /\ heap' = heap
              /\ IF Top(stack) \in DOMAIN heap
                 THEN /\ status' = "running"
                      /\ stack' = Append(Pop(stack), heap[Top(stack)])
                 ELSE /\ status' = "Failure"
                      /\ error' = HeapKeyError(Top(stack))]_vars

\* C18, witness: address 0 was written twice, with 1 and then with 2, and
\* heap push has read the 2.
C18_ReadSecondWrite ==
    /\ code = PUSH(L0) \o PUSH(L1) \o STORE \o PUSH(L0) \o PUSH(L2) \o STORE
                  \o PUSH(L0) \o LOAD \o OUTN \o EXIT
    /\ ~loading
    /\ status = "running"
    /\ command = "push"
    /\ instruction = "Heap"
    /\ stack = <<2>>

(***************************************************************************)
(* C19                                                                     *)
(***************************************************************************)
\* The slice at pos is no code of a family.
UnknownFamilyCode == Looping /\ Token(IMP, pos) \notin DOMAIN IMP

\* The slice after the code of family is no code of a command of it.
UnknownCommandCode(family) ==
    Fetched(family) /\ CommandToken(family) \notin DOMAIN FamilyTable(family)

\* C19, as stated: when the slice at the current offset is in no code
\* table, at the top level or in a family, the run fails with an error that
\* reports that slice, the failed match does not advance the program
\* counter, and no handler runs.
C19_UnknownCodeReportsSlice ==
    /\ [][UnknownFamilyCode =>
              /\ status' = "Failure"
              /\ error'.arg = Token(IMP, pos)
              /\ pos' = pos
              /\ UNCHANGED <<stack, heap, input, output, labels,
                             return_positions>>]_vars
    /\ [][\A family \in {"Stack", "Arithmetic", "Heap", "IO", "FlowControl"} :
              UnknownCommandCode(family) =>
                  /\ status' = "Failure"
                  /\ error'.arg = CommandToken(family)
                  /\ pos' = Pos1
                  /\ UNCHANGED <<stack, heap, input, output, labels,
                                 return_positions>>]_vars

(***************************************************************************)
(* C20                                                                     *)
(***************************************************************************)
\* C20, as stated: every iteration of the loop in Discovery either fails or
\* leaves the program counter greater than it was.
C20_DiscoveryIterationAdvances ==
    [][(loading /\ Looping) => (status' = "Failure" \/ pos' > pos)]_vars

(***************************************************************************)
(* C21                                                                     *)
(***************************************************************************)
\* Offset o is immediately after the label literal of a call_subroutine
\* code.
AfterCall(o) ==
    \E p \in 3 .. Len(code) :
        /\ SubSeq(code, p - 2, p) = <<N, S, T>>
        /\ AfterLiteral(p, o)

\* C21, as stated: in every state the program counter is an offset of the
\* program, its length included, or the exit sentinel; every offset in the
\* label table is the offset immediately after the terminating line-feed
\* of a mark_label's label literal; and every offset on the return stack
\* is the offset immediately after the terminating line-feed of a
\* call_subroutine's label literal.
C21_OffsetsFollowLiterals ==
    /\ pos \in 0 .. Len(code) \/ pos = Inf
    /\ \A l \in DOMAIN labels :
           /\ labels[l] \in 0 .. Len(code)
           /\ AfterMark(l, labels[l])
    /\ \A i \in 1 .. Len(return_positions) :
           /\ return_positions[i] \in 0 .. Len(code)
           /\ AfterCall(return_positions[i])

=============================================================================
